---- MODULE Spec2Model ----
(***************************************************************************)
(* Model of the moveslice crate (src/src/lib.rs, src/src/main.rs).         *)
(*                                                                         *)
(* The crate implements, for every A: AsMut<[T]>, the methods              *)
(*   try_moveslice(bounds, destination) -> Result<(), Error>               *)
(*   moveslice(bounds, destination)        (panics on Err)                 *)
(* which move the chunk denoted by a RangeBounds<usize> so that it starts  *)
(* at index `destination`, using split_at_mut and rotate_left/right.       *)
(*                                                                         *)
(* usize is modelled as an unsigned integer of UsizeBits bits.  Overflow   *)
(* of + and - on usize is not undefined in Rust but depends on the build:  *)
(* with overflow checks (debug profile) the operation panics, without      *)
(* them (release profile) it wraps.  The build is a state variable chosen  *)
(* in Init.                                                                *)
(***************************************************************************)
EXTENDS Integers, Sequences, FiniteSets, TLC

\* ---------------------------------------------------------------- bounds
\* Longest slice handed to the methods.
MaxLen == 4
\* Width of usize in the model.
UsizeBits == 3

Modulus == 2 ^ UsizeBits
UsizeMax == Modulus - 1
Usize == 0 .. UsizeMax

\* ------------------------------------------------------- usize arithmetic
\* Marks a computation that panicked ("attempt to add/subtract with overflow").
Fault == 0 - 1

\* a + b on usize: panics with overflow checks, wraps without.
add(a, b, oc) ==
    IF a = Fault \/ b = Fault THEN Fault
    ELSE IF a + b > UsizeMax THEN (IF oc THEN Fault ELSE (a + b) % Modulus)
    ELSE a + b

\* a - b on usize: panics with overflow checks, wraps without.
sub(a, b, oc) ==
    IF a = Fault \/ b = Fault THEN Fault
    ELSE IF a < b THEN (IF oc THEN Fault ELSE (a - b) + Modulus)
    ELSE a - b

\* ------------------------------------------------------------ range bounds
\* core::ops::Bound<usize>, as returned by start_bound() / end_bound().
Unbounded == [kind |-> "Unbounded", v |-> 0]
Included(n) == [kind |-> "Included", v |-> n]
Excluded(n) == [kind |-> "Excluded", v |-> n]

Bounds == {Unbounded} \cup {Included(n) : n \in Usize} \cup {Excluded(n) : n \in Usize}

\* Every (start_bound, end_bound) pair a RangeBounds<usize> value can present.
RangeExprs == [start : Bounds, end : Bounds]

\* The half-open range expression a..b.
Range(a, b) == [start |-> Included(a), end |-> Excluded(b)]

\* ----------------------------------------------------------------- Error
NoResult == [tag |-> "None", len |-> 0, lo |-> 0, hi |-> 0, why |-> "", wrapped |-> FALSE]

Ok(w) == [tag |-> "Ok", len |-> 0, lo |-> 0, hi |-> 0, why |-> "", wrapped |-> w]

\* Err(Error::InvalidBounds { len, bounds: (lo, hi) })
InvalidBounds(n, x, y, w) ==
    [tag |-> "InvalidBounds", len |-> n, lo |-> x, hi |-> y, why |-> "", wrapped |-> w]

\* Err(Error::OutOfBoundsMove { len, dest: (lo, hi) })
OutOfBoundsMove(n, x, y, w) ==
    [tag |-> "OutOfBoundsMove", len |-> n, lo |-> x, hi |-> y, why |-> "", wrapped |-> w]

\* The call did not return: it panicked.  why is "arith" (overflow check),
\* "split" (split_at_mut: mid > len), "rotate" (rotate_*: k > len) or
\* "moveslice" (the panic! of the moveslice wrapper).
Panic(reason, w) ==
    [tag |-> "Panic", len |-> 0, lo |-> 0, hi |-> 0, why |-> reason, wrapped |-> w]

\* ------------------------------------------------------ slice primitives
\* <[T]>::rotate_left(mid), for mid <= len: the first mid elements go to the end.
rotate_left_mirror(s, mid) ==
    [i \in 1 .. Len(s) |-> s[((i - 1 + Len(s) - mid) % Len(s)) + 1]]

rotate_left(s, mid) ==
    [i \in 1 .. Len(s) |-> s[((i - 1 + mid) % Len(s)) + 1]]

\* <[T]>::rotate_right(k), for k <= len: the last k elements go to the front.
rotate_right_mirror(s, k) ==
    [i \in 1 .. Len(s) |-> s[((i - 1 + k) % Len(s)) + 1]]

rotate_right(s, k) ==
    [i \in 1 .. Len(s) |-> s[((i - 1 + Len(s) - k) % Len(s)) + 1]]

\* slice.split_at_mut(mid).0 and .1, for mid <= len (0-based mid).
split_head(s, mid) == SubSeq(s, 1, mid)
split_tail(s, mid) == SubSeq(s, mid + 1, Len(s))

\* ------------------------------------------------------- try_moveslice
\* let x = ...: the start of the chunk.
chunk_start(bounds) ==
    IF bounds.start.kind = "Included" THEN bounds.start.v ELSE 0

\* let y = ...: the end of the chunk (Fault if x+1 panics).
chunk_end(bounds, len, oc) ==
    IF bounds.end.kind = "Excluded" THEN bounds.end.v
    ELSE IF bounds.end.kind = "Included" THEN add(bounds.end.v, 1, oc)
    ELSE len

\* if chunk.0 > slice.len() || chunk.1 > slice.len()
bounds_invalid_start_only(chunk, len) == chunk[1] > len

bounds_invalid(chunk, len) == chunk[1] > len \/ chunk[2] > len

\* if index2 <= mid.len()
fits_strict(index2, midlen) == index2 < midlen

fits(index2, midlen) == index2 <= midlen

\* The `destination > chunk.0` branch: rotate slice[chunk.0 .. destination +
\* chunksize) left by chunksize, or report OutOfBoundsMove.
move_right_rotate_first(s, chunk, destination, oc) ==
    LET chunksize == sub(chunk[2], chunk[1], oc)
        index1 == chunk[1]
        index2 == sub(add(destination, chunksize, oc), index1, oc)
        mid == split_tail(s, index1)
        amount == IF chunksize = Fault \/ chunksize > Len(mid) THEN 0 ELSE chunksize
        rotated == split_head(s, index1) \o rotate_left(mid, amount)
    IN  IF chunksize = Fault \/ index2 = Fault
        THEN [slice |-> s, res |-> Panic("arith", FALSE)]
        ELSE IF fits(index2, Len(mid))
        THEN [slice |-> rotated, res |-> Ok(FALSE)]
        ELSE [slice |-> rotated,
              res |-> OutOfBoundsMove(Len(s), destination,
                                      add(destination, chunksize, oc), FALSE)]

move_right(s, chunk, destination, oc) ==
    LET chunksize == sub(chunk[2], chunk[1], oc)
        index1 == chunk[1]
        destend == add(destination, chunksize, oc)
        index2 == sub(destend, index1, oc)
        mid == split_tail(s, index1)
        \* some machine value differs from the exact integer value
        wrapped == \/ chunksize # chunk[2] - chunk[1]
                   \/ destend # destination + (chunk[2] - chunk[1])
                   \/ index2 # destination + (chunk[2] - chunk[1]) - chunk[1]
    IN  IF chunksize = Fault \/ destend = Fault \/ index2 = Fault
        THEN [slice |-> s, res |-> Panic("arith", FALSE)]
        ELSE IF fits(index2, Len(mid))
        THEN IF chunksize > index2
             THEN [slice |-> s, res |-> Panic("rotate", wrapped)]
             ELSE [slice |-> split_head(s, index1)
                             \o rotate_left(split_head(mid, index2), chunksize)
                             \o split_tail(mid, index2),
                   res |-> Ok(wrapped)]
        ELSE [slice |-> s,
              res |-> OutOfBoundsMove(Len(s), destination, destend, wrapped)]

\* The `destination < chunk.0` branch: rotate slice[destination .. chunk.1)
\* right by chunksize.
move_left_no_second_split(s, chunk, destination, oc) ==
    LET index1 == destination
        index2 == sub(chunk[2], destination, oc)
        mid == split_tail(s, index1)
        amount == sub(chunk[2], chunk[1], oc)
    IN  IF index2 = Fault \/ amount = Fault \/ amount > Len(mid)
        THEN [slice |-> s, res |-> Panic("arith", FALSE)]
        ELSE [slice |-> split_head(s, index1) \o rotate_right(mid, amount),
              res |-> Ok(FALSE)]

move_left(s, chunk, destination, oc) ==
    LET index1 == destination
        index2 == sub(chunk[2], destination, oc)
        mid == split_tail(s, index1)
        amount == sub(chunk[2], chunk[1], oc)
        wrapped == index2 # chunk[2] - destination
        wrapped2 == wrapped \/ amount # chunk[2] - chunk[1]
    IN  IF index2 = Fault
        THEN [slice |-> s, res |-> Panic("arith", FALSE)]
        ELSE IF index2 > Len(mid)
        THEN [slice |-> s, res |-> Panic("split", wrapped)]
        ELSE IF amount = Fault
        THEN [slice |-> s, res |-> Panic("arith", wrapped)]
        ELSE IF amount > index2
        THEN [slice |-> s, res |-> Panic("rotate", wrapped2)]
        ELSE [slice |-> split_head(s, index1)
                        \o rotate_right(split_head(mid, index2), amount)
                        \o split_tail(mid, index2),
              res |-> Ok(wrapped2)]

\* The whole method: the slice it leaves, what it returns, and the chunk it
\* resolved (<<>> if resolving the range panicked).
try_moveslice(s, bounds, destination, oc) ==
    LET len == Len(s)
        x == chunk_start(bounds)
        y == chunk_end(bounds, len, oc)
        chunk == <<x, y>>
        ywrapped == bounds.end.kind = "Included" /\ y # bounds.end.v + 1
        mark(r) == [slice |-> r.slice, chunk |-> chunk,
                    res |-> [r.res EXCEPT !.wrapped = @ \/ ywrapped]]
    IN  IF y = Fault
        THEN [slice |-> s, chunk |-> <<>>, res |-> Panic("arith", FALSE)]
        ELSE IF bounds_invalid(chunk, len)
        THEN [slice |-> s, chunk |-> chunk, res |-> InvalidBounds(len, x, y, ywrapped)]
        ELSE IF destination > x
        THEN mark(move_right(s, chunk, destination, oc))
        ELSE IF destination < x
        THEN mark(move_left(s, chunk, destination, oc))
        ELSE [slice |-> s, chunk |-> chunk, res |-> Ok(ywrapped)]

\* moveslice: try_moveslice, with either Err turned into a panic!.
moveslice(s, bounds, destination, oc) ==
    LET r == try_moveslice(s, bounds, destination, oc)
    IN  IF r.res.tag \in {"OutOfBoundsMove", "InvalidBounds"}
        THEN [r EXCEPT !.res = Panic("moveslice", r.res.wrapped)]
        ELSE r

\* ------------------------------------------------------------------ state
VARIABLES
    slice,            \* the caller's array, as the method leaves it
    pre,              \* the array as it was when the last call began
    call,             \* the last call: method, range expression, destination
    chunk,            \* the local `chunk` of the last call (<<>> if never bound)
    res,              \* what the last call returned (or that it panicked)
    first,            \* the call before the last one, with its array and result
    pc,               \* the caller's position
    overflow_checks   \* the build: TRUE = overflow checks on (debug profile)

vars == <<slice, pre, call, chunk, res, first, pc, overflow_checks>>

NoCall == [op |-> "none", bounds |-> Range(0, 0), destination |-> 0]
NoFirst == [call |-> NoCall, pre |-> <<>>, res |-> NoResult]

\* let mut arr = [1,2,3,...]: the arrays 1..n of the examples, n <= MaxLen.
Arrays == {[i \in 1 .. n |-> i] : n \in 0 .. MaxLen}

Init ==
    /\ slice \in Arrays
    /\ pre = <<>>
    /\ call = NoCall
    /\ chunk = <<>>
    /\ res = NoResult
    /\ first = NoFirst
    /\ pc = "start"
    /\ overflow_checks \in BOOLEAN

\* One call arr.try_moveslice(bounds, destination), from entry to return.
TryMoveslice(bounds, destination) ==
    LET r == try_moveslice(slice, bounds, destination, overflow_checks)
    IN  /\ pre' = slice
        /\ call' = [op |-> "try_moveslice", bounds |-> bounds, destination |-> destination]
        /\ slice' = r.slice
        /\ chunk' = r.chunk
        /\ res' = r.res
        /\ UNCHANGED overflow_checks

\* One call arr.moveslice(bounds, destination), from entry to return or panic.
Moveslice(bounds, destination) ==
    LET r == moveslice(slice, bounds, destination, overflow_checks)
    IN  /\ pre' = slice
        /\ call' = [op |-> "moveslice", bounds |-> bounds, destination |-> destination]
        /\ slice' = r.slice
        /\ chunk' = r.chunk
        /\ res' = r.res
        /\ UNCHANGED overflow_checks

\* A program that makes one call with any range expression and destination
\* (main.rs: let x = arr.try_moveslice(2..5, 4)).
MainTry ==
    /\ pc = "start"
    /\ \E bounds \in RangeExprs, destination \in Usize : TryMoveslice(bounds, destination)
    /\ pc' = "done"
    /\ UNCHANGED first

MainMove ==
    /\ pc = "start"
    /\ \E bounds \in RangeExprs, destination \in Usize : Moveslice(bounds, destination)
    /\ pc' = "done"
    /\ UNCHANGED first

Next == MainTry \/ MainMove

Spec == Init /\ [][Next]_vars

\* A program that makes two calls in a row on the same array with half-open
\* ranges a..b (the crate example: moveslice(3..6, 1) then moveslice(3..6, 6)).
Idx == 0 .. MaxLen + 1

FirstMove ==
    /\ pc = "start"
    /\ \E a \in Idx, b \in Idx, destination \in Idx : TryMoveslice(Range(a, b), destination)
    /\ pc' = "moved"
    /\ UNCHANGED first

SecondMove ==
    /\ pc = "moved"
    /\ \E a \in Idx, b \in Idx, destination \in Idx : TryMoveslice(Range(a, b), destination)
    /\ first' = [call |-> call, pre |-> pre, res |-> res]
    /\ pc' = "done"

NextTwo == FirstMove \/ SecondMove

SpecTwo == Init /\ [][NextTwo]_vars

\* ================================================================ claims
\* The last call was arr.try_moveslice(a..b, d) on an array of n elements.
TryCalled == call.op = "try_moveslice"
HalfOpen == call.bounds.start.kind = "Included" /\ call.bounds.end.kind = "Excluded"
TryRange == TryCalled /\ HalfOpen
a == call.bounds.start.v
b == call.bounds.end.v
d == call.destination
n == Len(pre)

\* S with the elements of [start, end) taken out and put back, in order, at
\* indices [dest, dest + (end - start)).
Reference(S, start, end, dest) ==
    LET removed == SubSeq(S, 1, start) \o SubSeq(S, end + 1, Len(S))
        moved == SubSeq(S, start + 1, end)
    IN  SubSeq(removed, 1, dest) \o moved \o SubSeq(removed, dest + 1, Len(removed))

\* C1: a call try_moveslice(start..end, d) with start <= end <= n and
\* d + (end - start) <= n returns Ok and leaves the reference result: the
\* chunk, in order, at [d, d + (end - start)), the other elements in order.
C1_MovesChunk ==
    (TryRange /\ a <= b /\ b <= n /\ d + (b - a) <= n)
        => (res.tag = "Ok" /\ slice = Reference(pre, a, b, d))

\* A non-empty chunk was moved to another index, which changed the array.
C1_Witness ==
    /\ TryRange /\ a < b /\ b <= n /\ d + (b - a) <= n /\ d # a
    /\ res.tag = "Ok" /\ slice # pre /\ slice = Reference(pre, a, b, d)

\* C2: whenever try_moveslice returns InvalidBounds or OutOfBoundsMove, the
\* array is element for element what it was before the call.
C2_ErrorLeavesSliceUnchanged ==
    (TryCalled /\ res.tag \in {"InvalidBounds", "OutOfBoundsMove"}) => slice = pre

\* An OutOfBoundsMove on an array that a rotation would have changed.
C2_Witness ==
    /\ TryCalled /\ res.tag = "OutOfBoundsMove" /\ n >= 2 /\ b - a >= 1 /\ HalfOpen
    /\ slice = pre

\* C3: a chunk (a, b) with b > n gives InvalidBounds{len: n, bounds: (a, b)}
\* whatever the destination, never OutOfBoundsMove, and leaves S unchanged.
C3_InvalidBounds ==
    (TryRange /\ b > n) => (res = InvalidBounds(n, a, b, FALSE) /\ slice = pre)

\* The chunk ends past the array and the destination is out of range too.
C3_Witness ==
    /\ TryRange /\ b > n /\ a <= n /\ d + (b - a) > n /\ d > n
    /\ res.tag = "InvalidBounds" /\ res.len = n /\ res.lo = a /\ res.hi = b

\* C4: a chunk (a, b) with a <= b <= n and a destination d with
\* d + (b - a) > n gives OutOfBoundsMove{len: n, dest: (d, d + (b - a))} and
\* leaves S unchanged.
C4_OutOfBoundsMove ==
    (TryRange /\ a <= b /\ b <= n /\ d + (b - a) > n)
        => (res.tag = "OutOfBoundsMove" /\ res.len = n /\ res.lo = d
            /\ res.hi = d + (b - a) /\ slice = pre)

\* The same statement for the destinations whose chunk end d + (b - a) is a
\* usize: it holds (the failures of C4 are the overflowing ones).
C4_WithinUsize ==
    (TryRange /\ a <= b /\ b <= n /\ d + (b - a) > n /\ d + (b - a) <= UsizeMax)
        => (res.tag = "OutOfBoundsMove" /\ res.len = n /\ res.lo = d
            /\ res.hi = d + (b - a) /\ slice = pre)

\* C5 as stated: a zero-width chunk (i, i), i <= n, succeeds and leaves S
\* unchanged for every destination, also d > n.
C5_ZeroWidthAlwaysOk ==
    (TryRange /\ a = b /\ a <= n) => (res.tag = "Ok" /\ slice = pre)

\* C5 amended: a zero-width chunk (i, i), i <= n, always leaves S unchanged;
\* the call returns Ok when d <= n and OutOfBoundsMove{len: n, dest: (d, d)}
\* when d > n.
C5_ZeroWidthNoOp ==
    (TryRange /\ a = b /\ a <= n)
        => /\ slice = pre
           /\ d <= n => res.tag = "Ok"
           /\ d > n => res = OutOfBoundsMove(n, d, d, FALSE)

\* A zero-width chunk inside the array was sent past the end of the array.
C5_Witness ==
    /\ TryRange /\ a = b /\ a < n /\ d > n
    /\ res.tag = "OutOfBoundsMove" /\ res.lo = d /\ res.hi = d /\ slice = pre

\* C6 as stated: after a successful call every element whose index is outside
\* [start, end) and outside [d, d + (end - start)) is where it was.
C6_OutsideUnionUntouched ==
    (TryRange /\ a <= b /\ res.tag = "Ok")
        => \A i \in 0 .. n - 1 :
              (~(a <= i /\ i < b) /\ ~(d <= i /\ i < d + (b - a)))
                  => slice[i + 1] = pre[i + 1]

Min(x, y) == IF x <= y THEN x ELSE y
Max(x, y) == IF x >= y THEN x ELSE y

\* C6 amended: after a successful call every element whose index is outside
\* the span from min(start, d) to max(end, d + (end - start)) is where it was
\* (the elements between the chunk and its destination do shift).
C6_OutsideSpanUntouched ==
    (TryRange /\ a <= b /\ res.tag = "Ok")
        => /\ Len(slice) = n
           /\ \A i \in 0 .. n - 1 :
                 (i < Min(a, d) \/ i >= Max(b, d + (b - a)))
                     => slice[i + 1] = pre[i + 1]

\* A move that changed the array and left elements on both sides of its span.
C6_Witness ==
    /\ TryRange /\ a < b /\ res.tag = "Ok" /\ slice # pre
    /\ Min(a, d) > 0 /\ Max(b, d + (b - a)) < n

\* The call before the last one was try_moveslice(fa..fb, fd) with valid
\* arguments, and the last one moved the chunk back.
fa == first.call.bounds.start.v
fb == first.call.bounds.end.v
fd == first.call.destination
FirstValid ==
    /\ first.call.op = "try_moveslice"
    /\ fa <= fb /\ fb <= Len(first.pre) /\ fd + (fb - fa) <= Len(first.pre)
MovedBack == TryRange /\ a = fd /\ b = fd + (fb - fa) /\ d = fa

\* C7: try_moveslice(a..b, d) and then try_moveslice(d..d+(b-a), a), with
\* a <= b <= n and d + (b - a) <= n, both succeed and restore the array.
C7_RoundTrip ==
    (pc = "done" /\ FirstValid /\ MovedBack)
        => (first.res.tag = "Ok" /\ res.tag = "Ok" /\ slice = first.pre)

\* A chunk was moved, which changed the array, and moved back.
C7_Witness ==
    /\ pc = "done" /\ FirstValid /\ MovedBack
    /\ fa < fb /\ fd # fa /\ pre # first.pre /\ slice = first.pre

\* C8: the chunk is the standard resolution of the range expression:
\* start: unbounded 0, inclusive s, exclusive s + 1; end: unbounded the
\* length, exclusive e, inclusive e + 1.
StandardStart(bound) ==
    IF bound.kind = "Unbounded" THEN 0
    ELSE IF bound.kind = "Included" THEN bound.v ELSE bound.v + 1
StandardEnd(bound, len) ==
    IF bound.kind = "Unbounded" THEN len
    ELSE IF bound.kind = "Excluded" THEN bound.v ELSE bound.v + 1

C8_StandardResolution ==
    (TryCalled /\ chunk # <<>>)
        => chunk = <<StandardStart(call.bounds.start), StandardEnd(call.bounds.end, n)>>

\* C9: with start <= n and end <= n and d < start the call returns Ok, and
\* neither end - d nor end - start underflows or exceeds its view.
C9_MoveLeftNeverFails ==
    (TryRange /\ a <= n /\ b <= n /\ d < a) => (res.tag = "Ok" /\ ~res.wrapped)

\* C10: for a valid chunk and any destination in 0 .. 2^w - 1 the call ends
\* in Ok or OutOfBoundsMove, and no index computation faults or wraps.
C10_NoOverflow ==
    (TryRange /\ a <= b /\ b <= n) => (res.tag \in {"Ok", "OutOfBoundsMove"} /\ ~res.wrapped)
====
